---------------------------- MODULE Spec2Model ----------------------------
(***************************************************************************)
(* A model of the proof-of-work subnet (mysubnet): the mixing hash, the    *)
(* sequential and the batch-parallel solver, the puzzle validator, the     *)
(* puzzle codec, the validation rounds of GPUTaskValidator and the weight  *)
(* aggregation.                                                            *)
(*                                                                         *)
(* Word width.  The program computes on 64-bit unsigned words.  TLC's      *)
(* integers are 32 bits wide, and the hash cubes a word, so the model      *)
(* keeps the program's arithmetic at a reduced width of WordBits bits:     *)
(* every place where the program wraps modulo 2^64 wraps modulo            *)
(* 2^WordBits here, the modulus q = 2^64 - 59 becomes 2^WordBits - 59, and *)
(* k and c keep their low-order bits.  The 256 mixing rounds are reduced   *)
(* to Rounds (at a small width 256 rounds collapse every input onto one    *)
(* fixed point).  A string is the sequence of its UTF-8 bytes.             *)
(*                                                                         *)
(* Exceptions.  A Python call either returns a value or raises; an         *)
(* operator that models a function returns Ok(v) or Raise(e).              *)
(***************************************************************************)
EXTENDS Integers, Sequences, FiniteSets, TLC

\* ------------------------------------------------------------------ bounds
\* the width of a word (64 in the program) and the rounds of f (256)
WordBits == 8
Rounds == 2
\* batch_size (10**6) and threads_per_block (256) of pow_gpu
BatchSize == 3
ThreadsPerBlock == 2
\* the batches after which the search is cut off (both solvers stop at
\* nonce MaxBatches * BatchSize)
MaxBatches == 3
\* the longest score dict and the largest settings.max_allowed_weights
MaxScores == 3
MaxCap == 3
\* the registered workers, the pool's max_workers (8) and the rounds run
NumWorkers == 3
PoolSize == 2
MaxRounds == 2
\* the objects the codec's heap holds at most
MaxObjects == 4
\* settings.iteration_interval (800 seconds) and the longest round, in ticks
IterationInterval == 2
MaxElapsed == 3

\* low-order 16 bits of k = 0x3030303030303030 and c = 0x72616e6473656564,
\* and the gap 2^64 - q
KLow == 12336
CLow == 25956
QGap == 59

\* ------------------------------------------------------------------- state
\* the solvers and the puzzle validator
VARIABLES
    task,         \* the puzzle (data, difficulty) the solvers are called with
    spc,          \* pow: position ("idle", "loop", "returned", "raised", "capped")
    nonce,        \* pow: the local nonce
    gpc,          \* pow_gpu: position ("idle", "reset", "kernel", "returned", "raised", "capped")
    start_nonce,  \* pow_gpu: first nonce of the current batch
    result,       \* pow_gpu: result_device, result[0] the nonce and result[1] the flag
    result_host,  \* pow_gpu: result_host
    upc,          \* pow_kernel: position of each unit ("idle", "start", "claim", "write", "done")
    prev,         \* pow_kernel: each unit's local prev (-1 before the atomic)
    verdict       \* validate_pow: its outcome on the solution of each solver

solveVars == <<task, spc, nonce, gpc, start_nonce, result, result_host, upc, prev, verdict>>

\* the score aggregation
VARIABLES
    score_dict,           \* set_weights: the score_dict it is called with
    max_allowed_weights,  \* settings.max_allowed_weights
    wpc,                  \* "call" before set_weights, then "voted" or "raised"
    kept,                 \* set_weights: score_dict after the cut
    voted                 \* the (uid, weight) items handed to client.vote

weightVars == <<score_dict, max_allowed_weights, wpc, kept, voted>>

\* the validation round
VARIABLES
    rpc,           \* validation_loop: "loop", "dispatch", "collect", "sleep", "crashed"
    round,         \* the number of rounds started
    modules_info,  \* validate_step: the uids with a usable address, in key order
    miner_task,    \* validate_step: the puzzle of the round
    call_state,    \* the pooled call of each uid: "none", "queued", "running", "done"
    call_outcome,  \* what the transport made of each call
    miner_results, \* what each pooled call returned: None or the decoded PowTaskResult
    invoked,       \* the puzzles each uid's module was called with in this round
    gathered,      \* validate_step: the list miner_results = [*it], by position
    pos,           \* validate_step: position of the collection loop in modules_info
    commits,       \* the number of client.vote calls made
    fault,         \* the exception that ended validation_loop, or "none"
    registered,    \* validate_step: whether val_ss58 was among modules_keys.values()
    elapsed,       \* validation_loop: time.time() - start_time, 0 from start_time on
    sleep_time     \* validation_loop: what time.sleep was called with, 0 for no call

roundVars == <<rpc, round, modules_info, miner_task, call_state, call_outcome,
               miner_results, invoked, gathered, pos, commits, fault, registered,
               elapsed, sleep_time>>

\* the puzzle codec: Python objects live in a heap and are held by reference
VARIABLES
    objects,   \* the heap: the objects constructed so far, an object's identity its index
    wire,      \* the str handed to deserialize: a payload received or written by serialize
    origin,    \* the object wire was serialized from, 0 for a payload received
    decoded,   \* the outcome of the last deserialize call
    compared   \* the outcome of the last comparison a == b and a != b

codecVars == <<objects, wire, origin, decoded, compared>>

vars == <<solveVars, weightVars, roundVars, codecVars>>

\* the parts of the state a specification does not use stay at these values
SolveIdle ==
    /\ task = << >>
    /\ spc = "idle"
    /\ nonce = 0
    /\ gpc = "idle"
    /\ start_nonce = 0
    /\ result = << >>
    /\ result_host = << >>
    /\ upc = << >>
    /\ prev = << >>
    /\ verdict = << >>

WeightsIdle ==
    /\ score_dict = << >>
    /\ max_allowed_weights = MaxCap
    /\ wpc = "call"
    /\ kept = << >>
    /\ voted = << >>

RoundIdle ==
    /\ rpc = "idle"
    /\ round = 0
    /\ modules_info = << >>
    /\ miner_task = << >>
    /\ call_state = << >>
    /\ call_outcome = << >>
    /\ miner_results = << >>
    /\ invoked = << >>
    /\ gathered = << >>
    /\ pos = 0
    /\ commits = 0
    /\ fault = "none"
    /\ registered = TRUE
    /\ elapsed = 0
    /\ sleep_time = 0

CodecIdle ==
    /\ objects = << >>
    /\ wire = [tok |-> "none"]
    /\ origin = 0
    /\ decoded = [exc |-> "not_called"]
    /\ compared = [exc |-> "not_called"]

Modulus == 2 ^ WordBits

Ok(v) == [exc |-> "none", val |-> v]
Raise(e) == [exc |-> e]

\* ------------------------------------------------------------- MixingHash
RECURSIVE Xor(_, _)
Xor(a, b) ==
    IF a = 0 THEN b
    ELSE IF b = 0 THEN a
    ELSE (((a % 2) + (b % 2)) % 2) + 2 * Xor(a \div 2, b \div 2)

\* int.from_bytes(bytes, "big")
RECURSIVE from_bytes(_)
from_bytes(bytes) ==
    IF bytes = << >> THEN 0
    ELSE (256 * from_bytes(SubSeq(bytes, 1, Len(bytes) - 1))) + bytes[Len(bytes)]

\* np.uint64(n) of a Python int: raises OverflowError outside the word range
np_uint64(n) ==
    IF n >= 0 /\ n < Modulus THEN Ok(n) ELSE Raise("OverflowError")

\* uint64(x): a word-to-word cast
uint64(x) == x % Modulus

q == Modulus - QGap
k == KLow % Modulus
c == CLow % Modulus

\* one round of the loop body of f: x ^ k, x ^ c, x ** 3 (wrapping), x % q
mix_round(x) == uint64(uint64(Xor(Xor(x, k), c) ^ 3) % q)

RECURSIVE mix_rounds(_, _)
mix_rounds(x, n) == IF n = 0 THEN x ELSE mix_rounds(mix_round(x), n - 1)

\* f(x, iv) nested in hash
f(x, iv) == mix_rounds(Xor(x, iv), Rounds)

\* the loop over values = [value, nonce], iv starting at 2**64 - 1
hash_lanes(value, nce) ==
    LET iv0 == Modulus - 1
        h1 == f(value, iv0)
        iv1 == Xor(iv0, h1)
    IN  f(nce, iv1)

\* hash(value: str, nonce: int)
hash(value, nce) ==
    LET v == np_uint64(from_bytes(value))
        n == np_uint64(nce)
    IN  IF v.exc # "none" THEN v
        ELSE IF n.exc # "none" THEN n
        ELSE Ok(hash_lanes(v.val, n.val))

\* 2 ** (64 - difficulty)
target_of(difficulty) == 2 ^ (WordBits - difficulty)


\* ---------------------------------------------------------------- puzzles
\* the strings a puzzle's data is drawn from: "a", "b", "A" and the over-long "ab"
DataSet == {<<97>>, <<98>>, <<65>>, <<97, 98>>}
DifficultySet == 1 .. WordBits
MaxNonce == MaxBatches * BatchSize


\* blocks = (nonces.size + threads_per_block - 1) // threads_per_block
blocks == (BatchSize + ThreadsPerBlock - 1) \div ThreadsPerBlock
\* the units of one launch: cuda.grid(1) ranges over blocks * threads_per_block
Units == 0 .. (blocks * ThreadsPerBlock - 1)
\* nonces = np.arange(start_nonce, start_nonce + batch_size)
MutNonces(start, idx) == idx
nonces(start, idx) == start + idx

Zeros == [i \in {0, 1} |-> 0]
NotCalled == [exc |-> "not_called"]
Solvers == {"pow", "pow_gpu"}

SolveInit ==
    /\ task \in [data : DataSet, difficulty : DifficultySet]
    /\ spc = "loop"
    /\ nonce = 0
    /\ gpc = "idle"
    /\ start_nonce = 0
    /\ result = Zeros
    /\ result_host = Zeros
    /\ upc = [i \in Units |-> "idle"]
    /\ prev = [i \in Units |-> -1]
    /\ verdict = [s \in Solvers |-> NotCalled]

\* ------------------------------------------------------- SequentialSolver
\* the acceptance test of pow: candidate < target
MutPowAccepts(candidate, target) == candidate <= target
MutPowAcceptsHalf(candidate, target) == candidate < target \div 2
pow_accepts(candidate, target) == candidate < target

\* one iteration of the while loop of pow(data, difficulty)
pow ==
    /\ spc = "loop"
    /\ LET candidate == hash(task.data, nonce)
       IN  IF candidate.exc # "none"
           THEN /\ spc' = "raised"
                /\ nonce' = nonce
           ELSE IF pow_accepts(candidate.val, target_of(task.difficulty))
           THEN /\ spc' = "returned"
                /\ nonce' = nonce
           ELSE IF nonce + 1 >= MaxNonce
           THEN /\ spc' = "capped"
                /\ nonce' = nonce
           ELSE /\ spc' = "loop"
                /\ nonce' = nonce + 1
    /\ UNCHANGED <<task, gpc, start_nonce, result, result_host, upc, prev, verdict>>
    /\ UNCHANGED <<weightVars, roundVars, codecVars>>

\* ---------------------------------------------------- BatchParallelSolver
\* f(x, iv) nested in pow_kernel
MutKernelF(x, iv) == mix_rounds(uint64(x), Rounds)
kernel_f(x, iv) == mix_rounds(Xor(uint64(x), iv), Rounds)

\* the digest a unit computes: value[0] = uint64(values[0]), value[1] = uint64(nonce)
kernel_hash(values0, n) ==
    LET iv0 == Modulus - 1
        h1 == kernel_f(uint64(values0), iv0)
        iv1 == Xor(iv0, h1)
    IN  kernel_f(uint64(n), iv1)

\* pow_gpu up to the while loop: target, result_host and result_device
pow_gpu_begin ==
    /\ gpc = "idle"
    /\ spc # "loop"
    /\ gpc' = "reset"
    /\ start_nonce' = 0
    /\ result_host' = Zeros
    /\ result' = Zeros
    /\ UNCHANGED <<task, spc, nonce, upc, prev, verdict>>
    /\ UNCHANGED <<weightVars, roundVars, codecVars>>

\* the loop body up to the kernel launch: reset the result, prepare the value lane
pow_gpu_launch ==
    /\ gpc = "reset"
    /\ LET value == np_uint64(from_bytes(task.data))
       IN  IF value.exc # "none"
           THEN /\ gpc' = "raised"
                /\ UNCHANGED <<upc, prev>>
           ELSE /\ gpc' = "kernel"
                /\ upc' = [i \in Units |-> "start"]
                /\ prev' = [i \in Units |-> -1]
    /\ result_host' = Zeros
    /\ result' = Zeros
    /\ UNCHANGED <<task, spc, nonce, start_nonce, verdict>>
    /\ UNCHANGED <<weightVars, roundVars, codecVars>>

\* the test a unit makes on its digest: hash < target[0]
kernel_accepts(h, target) == h < target

\* a unit from idx = cuda.grid(1) to the test of its digest
UnitHash(idx) ==
    /\ gpc = "kernel"
    /\ upc[idx] = "start"
    /\ upc' = [upc EXCEPT ![idx] =
                 IF /\ idx < BatchSize
                    /\ kernel_accepts(
                           kernel_hash(from_bytes(task.data), nonces(start_nonce, idx)),
                           target_of(task.difficulty))
                 THEN "claim" ELSE "done"]
    /\ UNCHANGED <<task, spc, nonce, gpc, start_nonce, result, result_host, prev, verdict>>
    /\ UNCHANGED <<weightVars, roundVars, codecVars>>

\* cuda.atomic.max(result, 1, 1): the old value, read and replaced in one step
MutAtomicMaxOld(old) == 0
atomic_max_old(old) == old

\* prev = cuda.atomic.max(result, 1, 1); if prev == 0
UnitClaim(idx) ==
    /\ gpc = "kernel"
    /\ upc[idx] = "claim"
    /\ prev' = [prev EXCEPT ![idx] = atomic_max_old(result[1])]
    /\ result' = [result EXCEPT ![1] = IF result[1] >= 1 THEN result[1] ELSE 1]
    /\ upc' = [upc EXCEPT ![idx] = IF prev'[idx] = 0 THEN "write" ELSE "done"]
    /\ UNCHANGED <<task, spc, nonce, gpc, start_nonce, result_host, verdict>>
    /\ UNCHANGED <<weightVars, roundVars, codecVars>>

\* result[0] = nonce
UnitWrite(idx) ==
    /\ gpc = "kernel"
    /\ upc[idx] = "write"
    /\ result' = [result EXCEPT ![0] = nonces(start_nonce, idx)]
    /\ upc' = [upc EXCEPT ![idx] = "done"]
    /\ UNCHANGED <<task, spc, nonce, gpc, start_nonce, result_host, prev, verdict>>
    /\ UNCHANGED <<weightVars, roundVars, codecVars>>

pow_kernel == \E idx \in Units : UnitHash(idx) \/ UnitClaim(idx) \/ UnitWrite(idx)

\* copy the result back once the kernel has completed; return or go to the next batch
pow_gpu_check ==
    /\ gpc = "kernel"
    /\ \A idx \in Units : upc[idx] = "done"
    /\ result_host' = result
    /\ IF result_host'[1] = 1
       THEN /\ gpc' = "returned"
            /\ start_nonce' = start_nonce
       ELSE IF start_nonce + BatchSize >= MaxNonce
       THEN /\ gpc' = "capped"
            /\ start_nonce' = start_nonce
       ELSE /\ gpc' = "reset"
            /\ start_nonce' = start_nonce + BatchSize
    /\ UNCHANGED <<task, spc, nonce, result, upc, prev, verdict>>
    /\ UNCHANGED <<weightVars, roundVars, codecVars>>

\* the value pow_gpu returns: result_host[0]
gpu_nonce == result_host[0]

\* --------------------------------------------------------- PuzzleValidator
\* str(n) of a non-negative integer: its decimal digits
RECURSIVE str(_)
str(n) == IF n < 10 THEN <<48 + n>> ELSE str(n \div 10) \o <<48 + (n % 10)>>

\* a call hash(*args): hash(value, nonce) has two required positional parameters
call_hash(args) ==
    IF Len(args) # 2 THEN Raise("TypeError") ELSE hash(args[1], args[2])

\* PowTaskResult(task, nonce)
PowTaskResult(t, n) == [task |-> t, nonce |-> n]

\* validate_pow(result): calls hash(result.task.data + str(result.nonce))
validate_pow(res) ==
    LET target_value == target_of(res.task.difficulty)
        final_hash == call_hash(<<res.task.data \o str(res.nonce)>>)
    IN  IF final_hash.exc # "none" THEN final_hash
        ELSE Ok(final_hash.val < target_value)

\* whether solver s has returned, and the nonce it returned
returned(s) == IF s = "pow" THEN spc = "returned" ELSE gpc = "returned"
returned_nonce(s) == IF s = "pow" THEN nonce ELSE gpu_nonce

\* validate_pow called on the solution a solver returned
Validate(s) ==
    /\ returned(s)
    /\ gpc \notin {"idle", "reset", "kernel"}
    /\ verdict[s].exc = "not_called"
    /\ verdict' = [verdict EXCEPT ![s] = validate_pow(PowTaskResult(task, returned_nonce(s)))]
    /\ UNCHANGED <<task, spc, nonce, gpc, start_nonce, result, result_host, upc, prev>>
    /\ UNCHANGED <<weightVars, roundVars, codecVars>>

SolveNext ==
    \/ pow
    \/ pow_gpu_begin
    \/ pow_gpu_launch
    \/ pow_kernel
    \/ pow_gpu_check
    \/ \E s \in Solvers : Validate(s)

InitSolve == SolveInit /\ WeightsIdle /\ RoundIdle /\ CodecIdle

SpecSolve == InitSolve /\ [][SolveNext]_vars

\* the digest of the specification: MixingHash on (data, nonce)
digest(data, n) == hash(data, n)

(***************************************************************************)
(* C1  Validity: every nonce returned by pow or by pow_gpu, under any      *)
(* scheduling of the units, has digest(data, nonce) < target(difficulty).  *)
(***************************************************************************)
C1_Validity ==
    \A s \in Solvers :
        returned(s) =>
            /\ digest(task.data, returned_nonce(s)).exc = "none"
            /\ digest(task.data, returned_nonce(s)).val < 2 ^ (WordBits - task.difficulty)

\* both solvers have returned, pow_gpu from a batch in which two units passed the test
C1_Witness ==
    /\ spc = "returned"
    /\ gpc = "returned"
    /\ Cardinality({i \in Units : prev[i] # -1}) >= 2

(***************************************************************************)
(* C2  Solver/validator agreement: validate_pow(solution) returns true     *)
(* iff digest(data, nonce) < target(difficulty); stated here on the        *)
(* solutions the solvers return, which all pass the solvers' test.         *)
(***************************************************************************)
C2_ValidatorAgrees ==
    \A s \in Solvers :
        verdict[s].exc # "not_called" =>
            /\ verdict[s].exc = "none"
            /\ verdict[s].val =
                   (digest(task.data, returned_nonce(s)).val
                        < 2 ^ (WordBits - task.difficulty))

(***************************************************************************)
(* C13  Sequential minimality: when pow(data, difficulty) returns nonce n, *)
(* digest(data, n) < target(difficulty) and digest(data, m) >= target for  *)
(* every m with 0 <= m < n: pow returns the smallest satisfying nonce.     *)
(***************************************************************************)
C13_SequentialMinimality ==
    spc = "returned" =>
        /\ digest(task.data, nonce).val < 2 ^ (WordBits - task.difficulty)
        /\ \A m \in 0 .. (nonce - 1) :
               digest(task.data, m).val >= 2 ^ (WordBits - task.difficulty)

\* pow has returned a nonce that two smaller nonces precede
C13_Witness ==
    /\ spc = "returned"
    /\ nonce >= 2

C19_ValueLaneReduction ==
    /\ spc # "raised"
    /\ gpc # "raised"
    /\ spc = "returned" =>
           hash(task.data, nonce).val
               = hash_lanes(from_bytes(task.data) % Modulus, nonce)

(***************************************************************************)
(* C21  Batch solver against the sequential one: pow_gpu scans the batches *)
(* [k * BatchSize, (k + 1) * BatchSize) in order, every launch starts from *)
(* a zeroed result buffer, and it returns from the first batch that holds  *)
(* a satisfying nonce: with n_seq the nonce pow returns for the puzzle,    *)
(* the nonce n_gpu of pow_gpu has n_gpu \div BatchSize = n_seq \div        *)
(* BatchSize and n_gpu >= n_seq, under every scheduling of the units, and  *)
(* within the nonces searched one solver returns iff the other does.       *)
(***************************************************************************)
C21_BatchVsReference ==
    /\ gpc \in {"kernel", "returned", "capped"} =>
           /\ start_nonce % BatchSize = 0
           /\ \A m \in 0 .. (start_nonce - 1) :
                  digest(task.data, m).val >= 2 ^ (WordBits - task.difficulty)
    /\ (gpc = "kernel" /\ \A i \in Units : upc[i] = "start") => result = Zeros
    /\ gpc = "returned" =>
           /\ gpu_nonce \in start_nonce .. (start_nonce + BatchSize - 1)
           /\ digest(task.data, gpu_nonce).val < 2 ^ (WordBits - task.difficulty)
    /\ gpc = "capped" =>
           \A m \in 0 .. (MaxNonce - 1) :
               digest(task.data, m).val >= 2 ^ (WordBits - task.difficulty)
    /\ (spc = "returned" /\ gpc = "returned") =>
           /\ gpu_nonce \div BatchSize = nonce \div BatchSize
           /\ gpu_nonce >= nonce
    /\ gpc \in {"returned", "capped"} => (gpc = "returned" <=> spc = "returned")

\* both solvers have returned, pow_gpu from a later batch and with a larger
\* nonce than pow
C21_Witness ==
    /\ spc = "returned"
    /\ gpc = "returned"
    /\ start_nonce > 0
    /\ gpu_nonce > nonce

\* the units that observed the old flag value 0
Claimants == {i \in Units : prev[i] = 0}

(***************************************************************************)
(* C6  Single-winner claim: in a batch the flag result[1] is raised by     *)
(* one unit only: at most one unit observes the old value 0, the flag is   *)
(* 1 iff some unit did, no other unit writes result[0], and once the batch *)
(* has completed with a unit that passed the test, exactly one unit        *)
(* observed 0 and result[0] is that unit's nonce, a nonce of this batch    *)
(* whose digest is below the target.                                       *)
(***************************************************************************)
C6_SingleWinner ==
    gpc = "kernel" =>
        /\ Cardinality(Claimants) <= 1
        /\ (result[1] = 1) <=> (Claimants # {})
        /\ result[1] \in {0, 1}
        /\ \A i \in Units : upc[i] = "write" => i \in Claimants
        /\ \A i \in Claimants :
               upc[i] = "done" =>
                   /\ result[0] = nonces(start_nonce, i)
                   /\ i < BatchSize
                   /\ digest(task.data, result[0]).val < 2 ^ (WordBits - task.difficulty)
        /\ ((\A i \in Units : upc[i] = "done") /\ (\E i \in Units : prev[i] # -1))
               => Cardinality(Claimants) = 1

\* a completed batch in which three units passed the test and the winner
\* is not the unit with the smallest nonce
C6_Witness ==
    /\ gpc = "kernel"
    /\ \A i \in Units : upc[i] = "done"
    /\ Cardinality({i \in Units : prev[i] # -1}) >= 3
    /\ \E i \in Claimants : \E j \in Units : j < i /\ prev[j] = 1

\* ---------------------------------------------------------- ScoreAggregator
(***************************************************************************)
(* A dict is the sequence of its (key, value) items in insertion order.    *)
(* A score is a number of tenths: 0 .. 10 stands for 0.0 .. 1.0 (weights   *)
(* depend only on the ratios of the scores).                               *)
(***************************************************************************)
ScoreSet == 0 .. 10
\* the score dicts of at most MaxScores entries, the i-th entry under uid i
ScoreDicts ==
    UNION {[1 .. n -> ScoreSet] : n \in 0 .. MaxScores}
ItemsOf(scores) == [i \in 1 .. Len(scores) |-> <<i, scores[i]>>]


RECURSIVE SumScores(_)
SumScores(items) ==
    IF items = << >> THEN 0 ELSE items[1][2] + SumScores(Tail(items))

\* where a stable descending sort puts item e in the sorted prefix s:
\* after every item whose score is >= e's
MutInsertDesc(s, e) ==
    LET before == SelectSeq(s, LAMBDA x : x[2] > e[2])
        after == SelectSeq(s, LAMBDA x : x[2] <= e[2])
    IN  before \o <<e>> \o after
InsertDesc(s, e) ==
    LET before == SelectSeq(s, LAMBDA x : x[2] >= e[2])
        after == SelectSeq(s, LAMBDA x : x[2] < e[2])
    IN  before \o <<e>> \o after

\* sorted(score_dict.items(), key=lambda x: x[1], reverse=True)
RECURSIVE sorted_scores(_)
sorted_scores(items) ==
    IF items = << >> THEN << >>
    ELSE InsertDesc(sorted_scores(SubSeq(items, 1, Len(items) - 1)), items[Len(items)])

\* cut_to_max_allowed_weights: dict(sorted_scores[:max_allowed_weights])
cut_to_max_allowed_weights(items, cap) ==
    LET s == sorted_scores(items)
    IN  SubSeq(s, 1, IF cap < Len(s) THEN cap ELSE Len(s))

\* weight = int(score * 1000 / scores)
MutWeight(score, scores) ==
    IF scores = 0 THEN Raise("ZeroDivisionError")
    ELSE Ok((score * 1000 + scores - 1) \div scores)
weight_of(score, scores) ==
    IF scores = 0 THEN Raise("ZeroDivisionError")
    ELSE Ok((score * 1000) \div scores)

\* filter out 0 weights
MutFilterWeights(weighted) == weighted
filter_weights(weighted) == SelectSeq(weighted, LAMBDA x : x[2] # 0)

\* the body of set_weights after the cut: what client.vote receives, or the fault
\* raised by the first weight computation
weighted_scores(cut_scores) ==
    LET scores == SumScores(cut_scores)
        weights == [i \in 1 .. Len(cut_scores) |-> weight_of(cut_scores[i][2], scores)]
    IN  IF \E i \in 1 .. Len(cut_scores) : weights[i].exc # "none"
        THEN Raise("ZeroDivisionError")
        ELSE Ok(filter_weights(
                 [i \in 1 .. Len(cut_scores) |-> <<cut_scores[i][1], weights[i].val>>]))

WeightsInit ==
    /\ score_dict \in {ItemsOf(s) : s \in ScoreDicts}
    /\ max_allowed_weights \in 1 .. MaxCap
    /\ wpc = "call"
    /\ kept = << >>
    /\ voted = << >>

\* set_weights(settings, score_dict, netuid, client, key)
set_weights ==
    /\ wpc = "call"
    /\ kept' = cut_to_max_allowed_weights(score_dict, max_allowed_weights)
    /\ LET w == weighted_scores(kept')
       IN  IF w.exc # "none"
           THEN /\ wpc' = "raised"
                /\ voted' = voted
           ELSE /\ wpc' = "voted"
                /\ voted' = w.val
    /\ UNCHANGED <<score_dict, max_allowed_weights>>
    /\ UNCHANGED <<solveVars, roundVars, codecVars>>

WeightsNext == set_weights

InitWeights == WeightsInit /\ SolveIdle /\ RoundIdle /\ CodecIdle

SpecWeights == InitWeights /\ [][WeightsNext]_vars

\* the uids of a dict, and the sum of the weights of a weight vector
Uids(items) == {items[i][1] : i \in 1 .. Len(items)}
RECURSIVE SumWeights(_)
SumWeights(items) ==
    IF items = << >> THEN 0 ELSE items[1][2] + SumWeights(Tail(items))

(***************************************************************************)
(* C7  WeightVector invariant: every weight vector set_weights hands to    *)
(* client.vote has at most max_allowed_weights entries, every weight is a  *)
(* strictly positive integer and the weights sum to at most 1000.          *)
(***************************************************************************)
C7_WeightVector ==
    wpc = "voted" =>
        /\ Len(voted) <= max_allowed_weights
        /\ \A i \in 1 .. Len(voted) : voted[i][2] \in Nat /\ voted[i][2] > 0
        /\ SumWeights(voted) <= 1000

\* a vote after a cut that dropped an entry, as long as the cap allows, with
\* weights that the flooring brought below 1000
C7_Witness ==
    /\ wpc = "voted"
    /\ Len(kept) < Len(score_dict)
    /\ Len(voted) = max_allowed_weights
    /\ Len(voted) >= 2
    /\ SumWeights(voted) < 1000

(***************************************************************************)
(* C8  Empty-result case: when the score set is not empty and the sum of   *)
(* the kept scores is 0, set_weights completes without fault and hands     *)
(* over the empty weight vector.                                           *)
(***************************************************************************)
C8_EmptyResult ==
    (wpc # "call" /\ score_dict # << >> /\ SumScores(kept) = 0) =>
        /\ wpc = "voted"
        /\ voted = << >>

C10_TopKCut ==
    wpc # "call" =>
        LET n == Len(score_dict)
            Kept == {i \in 1 .. n : \E j \in 1 .. Len(kept) : kept[j] = score_dict[i]}
        IN  /\ Len(kept) = IF n < max_allowed_weights THEN n ELSE max_allowed_weights
            /\ Cardinality(Kept) = Len(kept)
            /\ \A i \in Kept : \A j \in (1 .. n) \ Kept :
                   score_dict[i][2] >= score_dict[j][2]
            /\ \A i \in 1 .. n : \A j \in 1 .. n :
                   (i < j /\ score_dict[i][2] = score_dict[j][2] /\ j \in Kept)
                       => i \in Kept

\* a cut that falls between two entries of equal score
C10_Witness ==
    /\ wpc # "call"
    /\ \E i \in 1 .. Len(score_dict) : \E j \in 1 .. Len(score_dict) :
          /\ i < j
          /\ score_dict[i][2] = score_dict[j][2]
          /\ score_dict[i] \in {kept[x] : x \in 1 .. Len(kept)}
          /\ score_dict[j] \notin {kept[x] : x \in 1 .. Len(kept)}

\* -------------------------------------------------------------- PuzzleCodec
(***************************************************************************)
(* A Python str is Str(chars), plain characters (letters, digits, blanks), *)
(* or Text(tokens), the characters of a JSON text given as its tokens: the *)
(* braces, the member names, and the literals, where a string literal is   *)
(* again a str (the solution text holds the puzzle text as a string).      *)
(* json.loads gives a JSON value: a str, IntVal(n) or Dict(items).         *)
(***************************************************************************)
Str(chars) == [tok |-> "str", chars |-> chars]
Text(tokens) == [tok |-> "text", tokens |-> tokens]
IntVal(n) == [tok |-> "int", n |-> n]
Dict(items) == [tok |-> "dict", items |-> items]
LBrace == [tok |-> "{"]
RBrace == [tok |-> "}"]
Key(name) == [tok |-> "key", name |-> name]

\* the tokens json.dumps writes for the members of a dict
RECURSIVE dump_members(_)
dump_members(items) ==
    IF items = << >> THEN << >>
    ELSE <<Key(items[1][1]), items[1][2]>> \o dump_members(Tail(items))

\* json.dumps(d) of a dict of str and int values
json_dumps(items) == Text(<<LBrace>> \o dump_members(items) \o <<RBrace>>)

\* int(chars) of decimal digits
RECURSIVE int_of(_)
int_of(chars) ==
    IF chars = << >> THEN 0
    ELSE 10 * int_of(SubSeq(chars, 1, Len(chars) - 1)) + (chars[Len(chars)] - 48)

\* the members between the braces: name, literal, name, literal, ...
RECURSIVE load_members(_)
load_members(tokens) ==
    IF tokens = << >> THEN Ok(<< >>)
    ELSE IF \/ Len(tokens) < 2
            \/ tokens[1].tok # "key"
            \/ tokens[2].tok \notin {"str", "text", "int"}
    THEN Raise("JSONDecodeError")
    ELSE LET rest == load_members(SubSeq(tokens, 3, Len(tokens)))
         IN  IF rest.exc # "none" THEN rest
             ELSE Ok(<<<<tokens[1].name, tokens[2]>>>> \o rest.val)

\* json.loads(s): TypeError unless s is a str, JSONDecodeError unless its
\* characters are a JSON text (a number or an object here)
json_loads(s) ==
    IF s.tok \notin {"str", "text"} THEN Raise("TypeError")
    ELSE IF s.tok = "str"
    THEN IF s.chars # << >> /\ \A i \in 1 .. Len(s.chars) : s.chars[i] \in 48 .. 57
         THEN Ok(IntVal(int_of(s.chars)))
         ELSE Raise("JSONDecodeError")
    ELSE LET t == s.tokens
         IN  IF Len(t) >= 2 /\ t[1].tok = "{" /\ t[Len(t)].tok = "}"
             THEN LET m == load_members(SubSeq(t, 2, Len(t) - 1))
                  IN  IF m.exc # "none" THEN m ELSE Ok(Dict(m.val))
             ELSE Raise("JSONDecodeError")

\* d[key]: TypeError unless d is a dict, KeyError for a missing key, the
\* last member of that name otherwise
getitem(d, key) ==
    IF d.tok # "dict" THEN Raise("TypeError")
    ELSE LET hits == SelectSeq(d.items, LAMBDA it : it[1] = key)
         IN  IF hits = << >> THEN Raise("KeyError") ELSE Ok(hits[Len(hits)][2])

\* the Python object of a JSON value: the characters of a plain str, the
\* number of an int
unbox(v) ==
    IF v.tok = "str" THEN v.chars
    ELSE IF v.tok = "int" THEN v.n
    ELSE v

\* PowTask(data, difficulty)
PowTask(d, n) == [data |-> d, difficulty |-> n]

\* PowTask.serialize
PowTask_serialize(self) ==
    json_dumps(<<<<"data", Str(self.data)>>, <<"difficulty", IntVal(self.difficulty)>>>>)

\* PowTask.deserialize(serialized)
PowTask_deserialize(serialized) ==
    LET t == json_loads(serialized)
    IN  IF t.exc # "none" THEN t
        ELSE LET d == getitem(t.val, "data")
             IN  IF d.exc # "none" THEN d
                 ELSE LET n == getitem(t.val, "difficulty")
                      IN  IF n.exc # "none" THEN n
                          ELSE Ok(PowTask(unbox(d.val), unbox(n.val)))

\* PowTaskResult.serialize
PowTaskResult_serialize(self) ==
    json_dumps(<<<<"task", PowTask_serialize(self.task)>>, <<"nonce", IntVal(self.nonce)>>>>)

\* PowTaskResult.deserialize(serialized)
PowTaskResult_deserialize(serialized) ==
    LET task_result == json_loads(serialized)
    IN  IF task_result.exc # "none" THEN task_result
        ELSE LET text == getitem(task_result.val, "task")
             IN  IF text.exc # "none" THEN text
                 ELSE LET t == PowTask_deserialize(text.val)
                      IN  IF t.exc # "none" THEN t
                          ELSE LET n == getitem(task_result.val, "nonce")
                               IN  IF n.exc # "none" THEN n
                                   ELSE Ok(PowTaskResult(t.val, unbox(n.val)))

\* isinstance(other, PowTask): of the two classes only a PowTask has data
isinstance_PowTask(other) == "data" \in DOMAIN other

\* PowTask.__ne__ (other is always a PowTask here)
task_ne(a, b) == a.data # b.data \/ a.difficulty # b.difficulty

\* PowTask.__ne__(self, other)
PowTask_ne(self, other) ==
    IF ~isinstance_PowTask(other) THEN TRUE ELSE task_ne(self, other)

\* the reply of Miner.perform_task to a task_type other than POW
InvalidTask == Str(<<73, 110, 118, 97, 108, 105, 100, 32, 84, 97, 115, 107>>)

\* ------------------------------------------- DispatchEngine and the round
Workers == 1 .. NumWorkers

\* _get_miner_pow_task: difficulty = 4 * 4 of the 64 bits of a word, one random character
task_difficulty == (4 * 4 * WordBits) \div 64
RoundData == {<<97>>, <<98>>}
miner_pow_tasks == {PowTask(d, task_difficulty) : d \in RoundData}

\* what a worker's call can come to: the call times out, the transport faults, or a
\* payload arrives, which is no encoded solution or encodes a solution for some puzzle
AnsweredTasks ==
    {PowTask(d, task_difficulty) : d \in RoundData}
        \cup {PowTask(<<97>>, task_difficulty + 1)}
AnsweredNonces == {3}
CallOutcomes ==
    {[kind |-> "timeout"], [kind |-> "fault"], [kind |-> "garbage"]}
        \cup {[kind |-> "solution", task |-> t, nonce |-> n] :
                  t \in AnsweredTasks, n \in AnsweredNonces}
NoOutcome == [kind |-> "pending"]

None == [none |-> TRUE]
is_none(x) == "none" \in DOMAIN x


\* the str a call that returns hands over: the worker's encoded solution, or
\* its "Invalid Task"
miner_response(outcome) ==
    IF outcome.kind = "solution"
    THEN PowTaskResult_serialize(PowTaskResult(outcome.task, outcome.nonce))
    ELSE InvalidTask

\* _get_miner_task_result: the call and the decoding sit in one try, any
\* exception gives None
get_miner_task_result(outcome) ==
    IF outcome.kind \in {"timeout", "fault"} THEN None
    ELSE LET r == PowTaskResult_deserialize(miner_response(outcome))
         IN  IF r.exc # "none" THEN None ELSE r.val

\* the parameters _validate_pow_task_result is declared with (no self)
validate_pow_task_result_params == 1

\* self._validate_pow_task_result(miner_result): a bound call passes self and
\* miner_result
validate_pow_task_result(miner_result) ==
    IF validate_pow_task_result_params # 2 THEN Raise("TypeError")
    ELSE validate_pow(miner_result)

\* _score_miner(miner_result)
score_miner(miner_result) ==
    IF is_none(miner_result) THEN Ok(0)
    ELSE LET v == validate_pow_task_result(miner_result)
         IN  IF v.exc # "none" THEN v
             ELSE IF ~v.val THEN Ok(0) ELSE Ok(1)

\* the uids of a set in ascending order
RECURSIVE in_order(_)
in_order(S) ==
    IF S = {} THEN << >>
    ELSE LET m == CHOOSE x \in S : \A y \in S : x <= y
         IN  <<m>> \o in_order(S \ {m})

InfoSet == {modules_info[i] : i \in 1 .. Len(modules_info)}
Running == {w \in Workers : call_state[w] = "running"}

RoundInit ==
    /\ rpc = "loop"
    /\ round = 0
    /\ modules_info = << >>
    /\ miner_task \in miner_pow_tasks
    /\ call_state = [w \in Workers |-> "none"]
    /\ call_outcome = [w \in Workers |-> NoOutcome]
    /\ miner_results = [w \in Workers |-> None]
    /\ invoked = [w \in Workers |-> << >>]
    /\ gathered = << >>
    /\ pos = 0
    /\ commits = 0
    /\ fault = "none"
    /\ registered = TRUE
    /\ elapsed = 0
    /\ sleep_time = 0

\* if val_ss58 not in modules_keys.values(): raise RuntimeError
MutRegistryCheck(present) == Ok(TRUE)
registry_check(present) == IF ~present THEN Raise("RuntimeError") ELSE Ok(TRUE)

\* validation_loop starts a round (start_time = time.time()); validate_step up to
\* the submission of the calls
round_start ==
    /\ rpc = "loop"
    /\ round < MaxRounds
    /\ round' = round + 1
    /\ elapsed' = 0
    /\ sleep_time' = 0
    /\ \E present \in BOOLEAN, usable \in SUBSET Workers, t \in miner_pow_tasks :
          /\ registered' = present
          /\ IF registry_check(present).exc # "none"
             THEN /\ rpc' = "crashed"
                  /\ fault' = registry_check(present).exc
                  /\ UNCHANGED <<modules_info, miner_task, call_state, call_outcome,
                                 miner_results, invoked, gathered, score_dict>>
             ELSE /\ rpc' = "dispatch"
                  /\ fault' = fault
                  /\ modules_info' = in_order(usable)
                  /\ miner_task' = t
                  /\ score_dict' = << >>
                  /\ call_state' = [w \in Workers |-> IF w \in usable THEN "queued" ELSE "none"]
                  /\ call_outcome' = [w \in Workers |-> NoOutcome]
                  /\ miner_results' = [w \in Workers |-> None]
                  /\ invoked' = [w \in Workers |-> << >>]
                  /\ gathered' = << >>
    /\ UNCHANGED <<pos, commits, max_allowed_weights, wpc, kept, voted>>
    /\ UNCHANGED <<solveVars, codecVars>>

\* ThreadPoolExecutor(max_workers=8): a thread is free while fewer than
\* max_workers calls run
MutPoolHasIdleThread(busy) == TRUE
pool_has_idle_thread(busy) == busy < PoolSize

\* a pool thread takes the next submitted call
call_start(w) ==
    /\ rpc = "dispatch"
    /\ call_state[w] = "queued"
    /\ pool_has_idle_thread(Cardinality(Running))
    /\ \A v \in Workers : call_state[v] = "queued" => w <= v
    /\ call_state' = [call_state EXCEPT ![w] = "running"]
    /\ invoked' = [invoked EXCEPT ![w] = Append(@, miner_task)]
    /\ UNCHANGED <<rpc, round, modules_info, miner_task, call_outcome, miner_results,
                   gathered, pos, commits, fault, registered, elapsed, sleep_time,
                   weightVars>>
    /\ UNCHANGED <<solveVars, codecVars>>

\* _get_miner_task_result returns for one call
call_finish(w) ==
    /\ rpc = "dispatch"
    /\ call_state[w] = "running"
    /\ \E o \in CallOutcomes :
          /\ call_outcome' = [call_outcome EXCEPT ![w] = o]
          /\ miner_results' = [miner_results EXCEPT ![w] = get_miner_task_result(o)]
    /\ call_state' = [call_state EXCEPT ![w] = "done"]
    /\ UNCHANGED <<rpc, round, modules_info, miner_task, invoked, gathered, pos,
                   commits, fault, registered, elapsed, sleep_time, weightVars>>
    /\ UNCHANGED <<solveVars, codecVars>>

\* executor.map(get_miner_result, modules_info.values()): the i-th result it
\* yields is the result of the call submitted i-th, the call for the i-th value
MutMapResult(returned_by, info, i) == returned_by[info[Len(info) + 1 - i]]
map_result(returned_by, info, i) == returned_by[info[i]]

\* miner_results = [*it] and the end of the with block: every call has returned
gather ==
    /\ rpc = "dispatch"
    /\ \A w \in InfoSet : call_state[w] = "done"
    /\ rpc' = "collect"
    /\ pos' = 1
    /\ gathered' = [i \in 1 .. Len(modules_info) |->
                       map_result(miner_results, modules_info, i)]
    /\ UNCHANGED <<round, modules_info, miner_task, call_state, call_outcome,
                   miner_results, invoked, commits, fault, registered, elapsed,
                   sleep_time, weightVars>>
    /\ UNCHANGED <<solveVars, codecVars>>

\* one iteration of the loop over zip(modules_info.keys(), miner_results)
collect_step ==
    /\ rpc = "collect"
    /\ pos <= Len(modules_info)
    /\ LET uid == modules_info[pos]
           miner_result == gathered[pos]
       IN  IF is_none(miner_result)
           THEN /\ pos' = pos + 1
                /\ UNCHANGED <<rpc, fault, score_dict>>
           ELSE IF task_ne(miner_result.task, miner_task)
           THEN /\ pos' = pos + 1
                /\ UNCHANGED <<rpc, fault, score_dict>>
           ELSE LET score == score_miner(miner_result)
                IN  IF score.exc # "none"
                    THEN /\ rpc' = "crashed"
                         /\ fault' = score.exc
                         /\ UNCHANGED <<pos, score_dict>>
                    ELSE /\ pos' = pos + 1
                         /\ score_dict' = Append(score_dict, <<uid, score.val>>)
                         /\ UNCHANGED <<rpc, fault>>
    /\ UNCHANGED <<round, modules_info, miner_task, call_state, call_outcome,
                   miner_results, invoked, gathered, commits, registered, elapsed,
                   sleep_time, max_allowed_weights, wpc, kept, voted>>
    /\ UNCHANGED <<solveVars, codecVars>>

\* not score_dict
MutNotScoreDict(scores) == FALSE
not_score_dict(scores) == scores = << >>

\* after the loop: return when score_dict is empty, else set_weights
finish_step ==
    /\ rpc = "collect"
    /\ pos > Len(modules_info)
    /\ IF not_score_dict(score_dict)
       THEN /\ rpc' = "sleep"
            /\ UNCHANGED <<commits, fault, kept, voted, wpc>>
       ELSE /\ kept' = cut_to_max_allowed_weights(score_dict, max_allowed_weights)
            /\ LET w == weighted_scores(kept')
               IN  IF w.exc # "none"
                   THEN /\ rpc' = "crashed"
                        /\ fault' = w.exc
                        /\ UNCHANGED <<commits, voted, wpc>>
                   ELSE /\ rpc' = "sleep"
                        /\ voted' = w.val
                        /\ wpc' = "voted"
                        /\ commits' = commits + 1
                        /\ fault' = fault
    /\ UNCHANGED <<round, modules_info, miner_task, call_state, call_outcome,
                   miner_results, invoked, gathered, pos, registered, elapsed,
                   sleep_time, score_dict, max_allowed_weights>>
    /\ UNCHANGED <<solveVars, codecVars>>

\* if elapsed < settings.iteration_interval: time.sleep(iteration_interval - elapsed)
MutSleepFor(el, interval) == interval
sleep_for(el, interval) == IF el < interval THEN interval - el ELSE 0

\* validate_step has returned: validation_loop takes the time, sleeps out the
\* interval and goes round
sleep_step ==
    /\ rpc = "sleep"
    /\ rpc' = "loop"
    /\ \E el \in 0 .. MaxElapsed :
          /\ elapsed' = el
          /\ sleep_time' = sleep_for(el, IterationInterval)
    /\ UNCHANGED <<round, modules_info, miner_task, call_state, call_outcome,
                   miner_results, invoked, gathered, pos, commits, fault, registered,
                   weightVars>>
    /\ UNCHANGED <<solveVars, codecVars>>

RoundNext ==
    \/ round_start
    \/ \E w \in Workers : call_start(w)
    \/ \E w \in Workers : call_finish(w)
    \/ gather
    \/ collect_step
    \/ finish_step
    \/ sleep_step

Init == RoundInit /\ WeightsIdle /\ SolveIdle /\ CodecIdle

Next == RoundNext

Spec == Init /\ [][Next]_vars

\* what became of a call: it failed (no decodable solution), or it answered the
\* puzzle of the round, or another puzzle
failed(w) == call_outcome[w].kind \in {"timeout", "fault", "garbage"}
matching(w) ==
    /\ call_outcome[w].kind = "solution"
    /\ call_outcome[w].task.data = miner_task.data
    /\ call_outcome[w].task.difficulty = miner_task.difficulty

\* the collection loop of the round is over: it ran to its end, or a fault ended it
CollectionOver ==
    \/ rpc = "collect" /\ pos > Len(modules_info)
    \/ rpc = "sleep"
    \/ rpc = "crashed" /\ fault # "RuntimeError"

\* the slots of the dispatch: a failed call leaves None in its own slot, and
\* every other slot holds the solution its own call returned
DispatchSlotsIsolated ==
    rpc \in {"dispatch", "collect"} =>
        \A w \in InfoSet :
            call_state[w] = "done" =>
                /\ failed(w) <=> is_none(miner_results[w])
                /\ ~failed(w) =>
                       miner_results[w]
                           = PowTaskResult(call_outcome[w].task, call_outcome[w].nonce)

(***************************************************************************)
(* C3  Dispatch isolation: in a round, a call that times out, faults or    *)
(* returns an undecodable payload yields no entry for its worker, does     *)
(* not abort the round, and every worker that answered the round's puzzle  *)
(* still has its entry in the round's result set.                          *)
(***************************************************************************)
C3_DispatchIsolation ==
    (CollectionOver /\ \E w \in InfoSet : failed(w)) =>
        /\ fault = "none"
        /\ \A w \in InfoSet : failed(w) => w \notin Uids(score_dict)
        /\ \A w \in InfoSet : matching(w) => w \in Uids(score_dict)

(***************************************************************************)
(* C4  Score-entry existence: at the end of a round's collection phase     *)
(* score_dict has an entry for worker w iff w's call returned a decodable  *)
(* solution whose puzzle equals the puzzle of the round.                   *)
(***************************************************************************)
C4_ScoreEntryExists ==
    CollectionOver =>
        \A w \in Workers :
            w \in Uids(score_dict) <=> (w \in InfoSet /\ matching(w))

(***************************************************************************)
(* C5  Scoring policy: scoring a puzzle-matching response completes with   *)
(* score 1 if the puzzle validator accepts the solution and 0 otherwise,   *)
(* and never raises a fault that aborts the round.                         *)
(***************************************************************************)
C5_ScoringPolicy ==
    /\ ~(rpc = "crashed" /\ fault = "TypeError")
    /\ \A i \in 1 .. Len(score_dict) :
           LET uid == score_dict[i][1]
               accepted ==
                   digest(miner_task.data, miner_results[uid].nonce).val
                       < 2 ^ (WordBits - miner_task.difficulty)
           IN  score_dict[i][2] = IF accepted THEN 1 ELSE 0

\* the loop is one sequential thread that keeps running, and a pooled call
\* returns at the latest when call_timeout expires: no step waits for ever
FairSpec == Spec /\ WF_vars(Next)

\* the calls of the round have returned and none answered the round's puzzle:
\* each timed out, faulted, returned no decodable solution or another puzzle
NoUsableEntry ==
    /\ rpc \in {"collect", "sleep"}
    /\ \A w \in InfoSet : ~matching(w)

(***************************************************************************)
(* C14  No usable entry: in a round in which no worker produces a score    *)
(* entry no client.vote is issued, the round ends without fault (the       *)
(* score set stays empty and validate_step returns), and the loop goes on  *)
(* to start the next round (up to the MaxRounds rounds modelled).          *)
(***************************************************************************)
C14_NoUsableEntry ==
    /\ [](NoUsableEntry => (fault = "none" /\ score_dict = << >>))
    /\ [][NoUsableEntry =>
             /\ commits' = commits
             /\ fault' = "none"
             /\ rpc' \in {"collect", "sleep", "loop"}]_vars
    /\ (NoUsableEntry /\ round < MaxRounds) ~> (rpc = "dispatch" \/ fault = "RuntimeError")

\* the loop back at its head, with no vote and no fault, after a round in which
\* one call timed out and one returned a solution of another puzzle
C14_Witness ==
    /\ rpc = "loop"
    /\ round >= 1
    /\ commits = 0
    /\ fault = "none"
    /\ \E w \in InfoSet : call_outcome[w].kind = "timeout"
    /\ \E w \in InfoSet : call_outcome[w].kind = "solution"

(***************************************************************************)
(* C15  Fatal missing identity: when the validator's key is not among the  *)
(* registered keys, validate_step raises RuntimeError before anything      *)
(* else of the round: no puzzle is produced, no call is submitted, no      *)
(* vote is made, and validation_loop ends, so no later round runs.         *)
(***************************************************************************)
C15_FatalMissingIdentity ==
    [][ /\ ~registered' =>
             /\ rpc' = "crashed"
             /\ fault' = "RuntimeError"
             /\ miner_task' = miner_task
             /\ commits' = commits
             /\ call_state' = call_state
             /\ \A w \in Workers : call_state'[w] \notin {"queued", "running"}
        /\ rpc # "crashed"
      ]_vars

\* the loop ended by the missing key at its first round, before any call
C15_Witness ==
    /\ rpc = "crashed"
    /\ fault = "RuntimeError"
    /\ ~registered
    /\ round = 1
    /\ commits = 0
    /\ \A w \in Workers : call_state[w] = "none"

(***************************************************************************)
(* C16  Round sequencing and cadence: a round starts only at the head of   *)
(* the loop, one at a time, and produces its puzzle there; the calls are   *)
(* collected only after the dispatch, a vote is made only after the        *)
(* collection, and the loop comes back to its head only after              *)
(* validate_step has returned, having slept max(0, IterationInterval -     *)
(* elapsed): not at all after a round that overran the interval.           *)
(***************************************************************************)
C16_RoundSequencing ==
    [][ /\ round' # round => (rpc = "loop" /\ round' = round + 1)
        /\ miner_task' # miner_task => (rpc = "loop" /\ round' = round + 1)
        /\ (rpc' = "dispatch" /\ rpc # "dispatch") => rpc = "loop"
        /\ (rpc' = "collect" /\ rpc # "collect") =>
               (rpc = "dispatch" /\ \A w \in InfoSet : call_state[w] = "done")
        /\ commits' # commits => (rpc = "collect" /\ pos > Len(modules_info))
        /\ rpc' = "sleep" => (rpc = "collect" /\ pos > Len(modules_info))
        /\ rpc' = "loop" =>
               /\ rpc = "sleep"
               /\ round' = round
               /\ sleep_time' = IF IterationInterval - elapsed' > 0
                                THEN IterationInterval - elapsed' ELSE 0
      ]_vars

\* the loop back at its head after its second round, which overran the interval
C16_Witness ==
    /\ rpc = "loop"
    /\ round = 2
    /\ elapsed > IterationInterval
    /\ sleep_time = 0

(***************************************************************************)
(* C17  Bounded dispatch concurrency: at most PoolSize calls run at a      *)
(* time, whatever the number of workers, and a call in flight writes no    *)
(* shared state: while a call is queued or running the score set is empty  *)
(* and its slot is None, and the results are collected only after every    *)
(* call of the round has returned.                                         *)
(***************************************************************************)
C17_BoundedDispatch ==
    /\ Cardinality(Running) <= PoolSize
    /\ \A w \in Workers :
           call_state[w] \in {"queued", "running"} =>
               /\ rpc = "dispatch"
               /\ score_dict = << >>
               /\ is_none(miner_results[w])
    /\ rpc = "collect" => \A w \in InfoSet : call_state[w] = "done"

\* the pool is full and a submitted call waits for a thread
C17_Witness ==
    /\ Cardinality(Running) = PoolSize
    /\ \E w \in Workers : call_state[w] = "queued"

\* what the call to the module of uid w came to, decoded: None for a call that
\* failed, else the solution that module returned
own_response(w) ==
    IF failed(w) THEN None
    ELSE PowTaskResult(call_outcome[w].task, call_outcome[w].nonce)

\* the results of the round's calls have been gathered
AfterGather == rpc = "collect" \/ CollectionOver

(***************************************************************************)
(* C22  Result attribution: in a round the module of every uid with a      *)
(* usable address is called exactly once, with the puzzle of the round,    *)
(* and no other module is called; in whatever order the pooled calls       *)
(* return, the result the collection loop pairs with uid u is the result   *)
(* of the call to u's own module, so the response scored, and any entry    *)
(* recorded, under u is u's own response.                                  *)
(***************************************************************************)
C22_ResultAttribution ==
    /\ \A w \in Workers :
           /\ Len(invoked[w]) <= 1
           /\ invoked[w] # << >> => (w \in InfoSet /\ invoked[w][1] = miner_task)
    /\ AfterGather =>
           /\ \A w \in Workers :
                  invoked[w] = IF w \in InfoSet THEN <<miner_task>> ELSE << >>
           /\ Len(gathered) = Len(modules_info)
           /\ \A i \in 1 .. Len(modules_info) :
                  gathered[i] = own_response(modules_info[i])
    /\ (rpc = "crashed" /\ fault = "TypeError") => matching(modules_info[pos])
    /\ \A i \in 1 .. Len(score_dict) :
           /\ score_dict[i][1] \in InfoSet
           /\ matching(score_dict[i][1])

\* the collection loop at work on two different solutions, the first of them
\* returned by a module whose uid is not its position in the list
C22_Witness ==
    /\ rpc = "collect"
    /\ Len(modules_info) >= 2
    /\ modules_info[1] # 1
    /\ ~is_none(gathered[1])
    /\ ~is_none(gathered[2])
    /\ gathered[1].task # gathered[2].task

\* ------------------------------------------------- the codec on its objects
\* payloads that are no encoding of a puzzle or of a solution: "Invalid Task",
\* the number 5, an object cut short, objects with a field missing, and a
\* solution whose task is not a puzzle text
MalformedPayloads ==
    { InvalidTask,
      Str(<<53>>),
      Text(<<LBrace, Key("data"), Str(<<97>>)>>),
      Text(<<LBrace, Key("data"), Str(<<97>>), RBrace>>),
      Text(<<LBrace, Key("difficulty"), IntVal(1), RBrace>>),
      Text(<<LBrace, Key("nonce"), IntVal(0), RBrace>>),
      Text(<<LBrace, Key("task"), PowTask_serialize(PowTask(<<97>>, 1)), RBrace>>),
      Text(<<LBrace, Key("task"), InvalidTask, Key("nonce"), IntVal(0), RBrace>>) }

Classes == {"PowTask", "PowTaskResult"}
Refs == 1 .. Len(objects)

\* two puzzles and a solution constructed, and a payload received
CodecInit ==
    /\ \E p \in AnsweredTasks, o \in AnsweredTasks, n \in AnsweredNonces :
          objects = <<p, o, PowTaskResult(p, n)>>
    /\ wire \in MalformedPayloads
    /\ origin = 0
    /\ decoded = NotCalled
    /\ compared = NotCalled

\* objects[ref].serialize()
serialize(ref) ==
    /\ wire' = IF isinstance_PowTask(objects[ref])
               THEN PowTask_serialize(objects[ref])
               ELSE PowTaskResult_serialize(objects[ref])
    /\ origin' = ref
    /\ UNCHANGED <<objects, decoded, compared>>
    /\ UNCHANGED <<solveVars, weightVars, roundVars>>

\* cls.deserialize(wire): the object cls(...) constructs is a new one
deserialize(cls) ==
    /\ Len(objects) < MaxObjects
    /\ LET r == IF cls = "PowTask"
                THEN PowTask_deserialize(wire)
                ELSE PowTaskResult_deserialize(wire)
       IN  IF r.exc # "none"
           THEN /\ decoded' = [cls |-> cls, exc |-> r.exc, ref |-> 0, of |-> origin]
                /\ objects' = objects
           ELSE /\ decoded' = [cls |-> cls, exc |-> "none", ref |-> Len(objects) + 1,
                               of |-> origin]
                /\ objects' = Append(objects, r.val)
    /\ UNCHANGED <<wire, origin, compared>>
    /\ UNCHANGED <<solveVars, weightVars, roundVars>>

\* a == b: neither class defines __eq__, so object.__eq__ decides, by identity
py_eq(a, b) == a = b

\* a != b: PowTask.__ne__ for a PowTask a, the negation of a == b otherwise
py_ne(a, b) ==
    IF isinstance_PowTask(objects[a]) THEN PowTask_ne(objects[a], objects[b]) ELSE a # b

\* a == b and a != b evaluated on two objects
compare(a, b) ==
    /\ compared' = [exc |-> "none", a |-> a, b |-> b, eq |-> py_eq(a, b), ne |-> py_ne(a, b)]
    /\ UNCHANGED <<objects, wire, origin, decoded>>
    /\ UNCHANGED <<solveVars, weightVars, roundVars>>

CodecNext ==
    \/ \E ref \in Refs : serialize(ref)
    \/ \E cls \in Classes : deserialize(cls)
    \/ \E a \in Refs, b \in Refs : compare(a, b)

InitCodec == CodecInit /\ SolveIdle /\ WeightsIdle /\ RoundIdle

SpecCodec == InitCodec /\ [][CodecNext]_vars

(***************************************************************************)
(* C11  Puzzle equality: for two PowTask objects p and q, p == q holds iff *)
(* p.data = q.data and p.difficulty = q.difficulty, and p != q is its      *)
(* exact negation.                                                         *)
(***************************************************************************)
C11_PuzzleEquality ==
    (/\ compared.exc = "none"
     /\ isinstance_PowTask(objects[compared.a])
     /\ isinstance_PowTask(objects[compared.b])) =>
        LET p == objects[compared.a]
            o == objects[compared.b]
        IN  /\ compared.eq <=> (p.data = o.data /\ p.difficulty = o.difficulty)
            /\ compared.ne <=> ~compared.eq

\* p != q alone follows the fields: PowTask.__ne__ compares data and difficulty
NeFieldwise ==
    (/\ compared.exc = "none"
     /\ isinstance_PowTask(objects[compared.a])
     /\ isinstance_PowTask(objects[compared.b])) =>
        (compared.ne <=>
            \/ objects[compared.a].data # objects[compared.b].data
            \/ objects[compared.a].difficulty # objects[compared.b].difficulty)

\* the class of an object, and a decoding of the text its own class wrote
class_of(ref) == IF isinstance_PowTask(objects[ref]) THEN "PowTask" ELSE "PowTaskResult"
DecodedOwnText ==
    /\ decoded.exc # "not_called"
    /\ decoded.of # 0
    /\ class_of(decoded.of) = decoded.cls

\* field by field the decoded object is the encoded one
FieldRoundTrip ==
    DecodedOwnText =>
        /\ decoded.exc = "none"
        /\ objects[decoded.ref] = objects[decoded.of]

(***************************************************************************)
(* C12  Round-trip: PowTask.deserialize(p.serialize()) == p for every      *)
(* puzzle p and PowTaskResult.deserialize(s.serialize()) == s for every    *)
(* solution s, == being the equality the classes themselves give.          *)
(***************************************************************************)
C12_RoundTrip ==
    DecodedOwnText =>
        /\ decoded.exc = "none"
        /\ py_eq(decoded.ref, decoded.of)

\* a decoding of a payload that is no text of the decoding class
DecodedMalformed ==
    /\ decoded.exc # "not_called"
    /\ \/ decoded.of = 0
       \/ class_of(decoded.of) # decoded.cls

(***************************************************************************)
(* C20  Decode errors: PowTask.deserialize and PowTaskResult.deserialize   *)
(* reject a malformed payload (no structured text, or a field missing)     *)
(* with a decode error - DecodeError, for which json's JSONDecodeError is  *)
(* taken too - and never with another fault, and yield no object.          *)
(***************************************************************************)
C20_DecodeErrors ==
    DecodedMalformed => decoded.exc \in {"DecodeError", "JSONDecodeError"}

=============================================================================
